---- MODULE Spec2Model ----
(***************************************************************************)
(* create_new_split.py: combine_data copies the images and labels of the   *)
(* train/valid/test folders into two flat pools, split_data re-partitions  *)
(* the pools into new train/valid/test folders.                            *)
(*                                                                         *)
(* A file name is <<base, ext>>: base k stands for the zero-padded base    *)
(* name img000k (so the order of the numbers is the order of the names),   *)
(* ext is the extension.  A directory is a set of files [name, data], at   *)
(* most one per name; data names the place the bytes were first read from. *)
(* A ratio is an exact rational <<num, den>> in lowest terms, standing for *)
(* the binary64 number nearest to it; the places where binary64            *)
(* arithmetic differs from exact arithmetic are tabulated.                 *)
(***************************************************************************)
EXTENDS Integers, Sequences, FiniteSets, TLC

VARIABLES data_dir,    \* [subdir -> [images, labels]]: the per-split input folders
          image_dir,   \* the flat image pool
          label_dir,   \* the flat label pool
          output_dir,  \* [split -> [images, labels]]: the re-split output folders
          made,        \* the directories created so far
          call,        \* the last call: its name, arguments, result and locals
          pc,          \* the call the script makes next
          pre          \* image_dir, label_dir, output_dir, made as the last call found them

vars == <<data_dir, image_dir, label_dir, output_dir, made, call, pc, pre>>

(* ------------------------------ bounds -------------------------------- *)

\* base names img0001..img000<SrcBases> in the per-split input folders
SrcBases == 1
\* base names img0001..img000<PoolBases> in a pre-existing flat pool
PoolBases == 5
\* matched pairs img0001..img00<MaxPairs> in the pool of the sizes scenario
MaxPairs == 10

(* ------------------------------ names --------------------------------- *)

subdirs == <<"train", "valid", "test">>

splits == <<"train", "valid", "test">>

SplitNames == {splits[i] : i \in 1..Len(splits)}

\* The extensions in use, in the order of Python's string comparison.
ExtOrder == <<"jpg", "png", "txt", "xml">>

ExtRank(e) == CHOOSE i \in 1..Len(ExtOrder) : ExtOrder[i] = e

\* Python's < on two file names img000k.ext (equal-length bases).
NameLess(a, b) == a[1] < b[1] \/ (a[1] = b[1] /\ ExtRank(a[2]) < ExtRank(b[2]))

\* os.path.splitext(fname)[0]
splitext(fname) == fname[1]

\* f"{base_name}.txt"
label_fname(base_name) == <<base_name, "txt">>

(* --------------------------- directories ------------------------------ *)

EmptyDir == {}

\* os.listdir(d), as a set
listdir(d) == {f.name : f \in d}

\* os.path.exists(os.path.join(d, fname))
exists(d, fname) == fname \in listdir(d)

ReadFile(d, fname) == (CHOOSE f \in d : f.name = fname).data

\* writing fname into d replaces a file of that name
WriteFile(d, fname, bytes) == {f \in d : f.name # fname} \cup {[name |-> fname, data |-> bytes]}

RemoveFile(d, fname) == {f \in d : f.name # fname}

RECURSIVE sorted(_)
\* sorted(names): the sequence of the names in increasing order
sorted(S) ==
    IF S = {} THEN <<>>
    ELSE LET m == CHOOSE x \in S : \A y \in S : y = x \/ NameLess(x, y)
         IN  <<m>> \o sorted(S \ {m})

(* ------------------------------ ratios -------------------------------- *)

RNum(q) == q[1]

RDen(q) == q[2]

RAdd(p, q) == <<RNum(p) * RDen(q) + RNum(q) * RDen(p), RDen(p) * RDen(q)>>

\* p / q for q > 0
RDiv(p, q) == <<RNum(p) * RDen(q), RDen(p) * RNum(q)>>

RLess(p, q) == RNum(p) * RDen(q) < RNum(q) * RDen(p)

REq(p, q) == RNum(p) * RDen(q) = RNum(q) * RDen(p)

ROne == <<1, 1>>

RZero == <<0, 1>>

\* ceil(q * n) in exact arithmetic, for n >= 0 and a denominator > 0
RCeilTimes(q, n) == -((-(RNum(q) * n)) \div RDen(q))

\* The ratio values a call is made with: -0.25, 0, 0.1, 0.2, 0.3, 0.5, 0.6, 0.7, 1, 1.5
RatioValues ==
    { <<-1, 4>>, <<0, 1>>, <<1, 10>>, <<1, 5>>, <<3, 10>>, <<1, 2>>, <<3, 5>>,
      <<7, 10>>, <<1, 1>>, <<3, 2>> }

\* |q|
RAbs(q) == IF RNum(q) < 0 THEN <<-RNum(q), RDen(q)>> ELSE q

\* The (train, val, test) a call is made with: the triples of RatioValues that sum to 1,
\* and the near misses that sum to 0.9 or 1.1
RatioTriples ==
    {r \in RatioValues \X RatioValues \X RatioValues :
        ~RLess(<<1, 10>>, RAbs(RAdd(RAdd(RAdd(r[1], r[2]), r[3]), <<-1, 1>>)))}

\* (train, val, test) of RatioValues whose exact sum is 1 and whose binary64 sum,
\* (train + val) + test, is 0.9999999999999999
SumRoundsBelowOne ==
    { << <<1, 5>>, <<7, 10>>, <<1, 10>> >>, << <<3, 10>>, <<3, 5>>, <<1, 10>> >>,
      << <<3, 5>>, <<3, 10>>, <<1, 10>> >>, << <<7, 10>>, <<1, 5>>, <<1, 10>> >> }

\* (val, test, n) of RatioValues and n <= 12 where binary64 (val + test) * n lies just
\* above the exact product, an integer: its ceil is one more (0.1 + 0.2 is
\* 0.30000000000000004)
SumCeilRoundsUp ==
    { << <<1, 10>>, <<1, 5>>, 10 >>, << <<1, 5>>, <<1, 10>>, 10 >> }

\* (val, test, n) of RatioValues and n <= 12 where binary64 (test / (val + test)) * n
\* lies just above the exact product, an integer: its ceil is one more
QuotCeilRoundsUp ==
    { << <<3, 10>>, <<3, 5>>, 9 >>, << <<1, 2>>, <<1, 5>>, 7 >>, << <<3, 5>>, <<1, 10>>, 7 >>,
      << <<3, 5>>, <<3, 10>>, 9 >>, << <<7, 10>>, <<1, 10>>, 8 >>, << <<7, 10>>, <<1, 5>>, 9 >> }

\* the check written as train_ratio + val_ratio + test_ratio <= 1
RatiosSumAtMostOne(train_ratio, val_ratio, test_ratio) ==
    ~RLess(ROne, RAdd(RAdd(train_ratio, val_ratio), test_ratio))

\* train_ratio + val_ratio + test_ratio == 1
RatiosSumToOne(train_ratio, val_ratio, test_ratio) ==
    /\ REq(RAdd(RAdd(train_ratio, val_ratio), test_ratio), ROne)
    /\ <<train_ratio, val_ratio, test_ratio>> \notin SumRoundsBelowOne

(* ------------------------- train_test_split --------------------------- *)

\* numpy.random.RandomState(42).permutation(n), for n = 0..12 (indices from 0)
Permutation42 ==
    << <<>>,
       <<0>>,
       <<1, 0>>,
       <<0, 1, 2>>,
       <<1, 3, 0, 2>>,
       <<1, 4, 2, 0, 3>>,
       <<0, 1, 5, 2, 4, 3>>,
       <<0, 1, 5, 2, 4, 3, 6>>,
       <<1, 5, 0, 7, 2, 4, 3, 6>>,
       <<7, 1, 5, 0, 8, 2, 4, 3, 6>>,
       <<8, 1, 5, 0, 7, 2, 9, 4, 3, 6>>,
       <<5, 0, 9, 10, 2, 1, 8, 4, 7, 3, 6>>,
       <<10, 9, 0, 8, 5, 2, 1, 11, 4, 7, 3, 6>> >>

permutation(n) == Permutation42[n + 1]

\* test_size of the first split, val_ratio + test_ratio, with its ceil(test_size * n)
FirstTestSize(val_ratio, test_ratio) ==
    [value |-> RAdd(val_ratio, test_ratio),
     up    |-> {n \in 0..12 : <<val_ratio, test_ratio, n>> \in SumCeilRoundsUp}]

\* test_size of the second split, test_ratio / (val_ratio + test_ratio)
SecondTestSize(val_ratio, test_ratio) ==
    [value |-> RDiv(test_ratio, RAdd(val_ratio, test_ratio)),
     up    |-> {n \in 0..12 : <<val_ratio, test_ratio, n>> \in QuotCeilRoundsUp}]

\* train_test_split rejects a float test_size outside (0, 1)
TestSizeInRange(test_size) ==
    RLess(RZero, test_size.value) /\ RLess(test_size.value, ROne)

\* n_test = ceil(test_size * n_samples)
NTest(test_size, n_samples) ==
    RCeilTimes(test_size.value, n_samples) + (IF n_samples \in test_size.up THEN 1 ELSE 0)

\* n_train = n_samples - n_test
NTrain(test_size, n_samples) == n_samples - NTest(test_size, n_samples)

\* train_test_split raises ValueError: test_size out of range, or an empty train set
SplitRaises(test_size, n_samples) ==
    \/ ~TestSizeInRange(test_size)
    \/ NTrain(test_size, n_samples) = 0

\* the test part: arr at permutation[:n_test]
TestPart(arr, test_size) ==
    LET n == Len(arr)
        p == permutation(n)
    IN  [i \in 1..NTest(test_size, n) |-> arr[p[i] + 1]]

\* the train part: arr at permutation[n_test:n_test + n_train]
TrainPart(arr, test_size) ==
    LET n == Len(arr)
        p == permutation(n)
        k == NTest(test_size, n)
    IN  [i \in 1..NTrain(test_size, n) |-> arr[p[k + i] + 1]]

(* ----------------------------- combine_data --------------------------- *)

\* the label looked up under the image's own name instead of <base>.txt
LabelsToCopyByImageName(sub_image_dir, sub_label_dir) ==
    {l \in sub_label_dir : l.name \in listdir(sub_image_dir)}

\* the labels of sub_label_dir that the loop over sub_image_dir copies: <base>.txt
\* of every image, where that file exists
LabelsToCopy(sub_image_dir, sub_label_dir) ==
    {l \in sub_label_dir :
        \E image_fname \in listdir(sub_image_dir) :
            /\ l.name = label_fname(splitext(image_fname))
            /\ exists(sub_label_dir, l.name)}

\* shutil.copy of every file of src into dst, under its own name
CopyAll(dst, src) == {f \in dst : f.name \notin listdir(src)} \cup src

RECURSIVE CombineFrom(_, _, _)
\* the loop over subdirs, from the i-th on; pools is [image_dir, label_dir]
CombineFrom(i, data, pools) ==
    IF i > Len(subdirs) THEN pools
    ELSE LET sub_image_dir == data[subdirs[i]].images
             sub_label_dir == data[subdirs[i]].labels
         IN  CombineFrom(i + 1, data,
                 [image_dir |-> CopyAll(pools.image_dir, sub_image_dir),
                  label_dir |-> CopyAll(pools.label_dir,
                                        LabelsToCopy(sub_image_dir, sub_label_dir))])

combine_data(data, pools) == CombineFrom(1, data, pools)

(* ------------------------------ split_data ---------------------------- *)

OutputDirs == {<<s, k>> : s \in SplitNames, k \in {"images", "labels"}}

\* every listed image kept, matched or not
matched_files_unfiltered(image_files, label_base_names) == image_files

\* matched_files: the images, in listing order, whose base name is a label base name
matched_files(image_files, label_base_names) ==
    SelectSeq(image_files, LAMBDA fname : splitext(fname) \in label_base_names)

\* shutil.move(source_dir/fname, target_dir/fname) for one file; fs is the file system
move_file(fs, kind, split, fname) ==
    LET source_dir == IF kind = "images" THEN fs.image_dir ELSE fs.label_dir
        target_dir == fs.output_dir[split][kind]
        moved      == WriteFile(target_dir, fname, ReadFile(source_dir, fname))
        out        == [fs.output_dir EXCEPT ![split][kind] = moved]
    IN  IF ~exists(source_dir, fname) THEN [fs EXCEPT !.result = "FileNotFoundError"]
        ELSE IF kind = "images"
             THEN [fs EXCEPT !.image_dir = RemoveFile(source_dir, fname), !.output_dir = out]
             ELSE [fs EXCEPT !.label_dir = RemoveFile(source_dir, fname), !.output_dir = out]

RECURSIVE move_files(_, _, _, _)
\* move_files(file_list, source_dir, target_dir): stops at the first file that fails
move_files(fs, kind, split, file_list) ==
    IF file_list = <<>> \/ fs.result # "ok" THEN fs
    ELSE move_files(move_file(fs, kind, split, Head(file_list)), kind, split, Tail(file_list))

NoLists ==
    [train_images |-> <<>>, val_images |-> <<>>, test_images |-> <<>>,
     train_labels |-> <<>>, val_labels |-> <<>>, test_labels |-> <<>>]

\* split_data on the file system fs: the file system afterwards, the result and the lists
split_data(fs, train_ratio, val_ratio, test_ratio) ==
    IF ~RatiosSumToOne(train_ratio, val_ratio, test_ratio)
    THEN [fs EXCEPT !.result = "AssertionError"]
    ELSE
    LET fs1 == [fs EXCEPT !.made = fs.made \cup OutputDirs]
        label_base_names == {splitext(fname) : fname \in listdir(fs.label_dir)}
        image_files == matched_files(sorted(listdir(fs.image_dir)), label_base_names)
        label_files == [i \in 1..Len(image_files) |-> label_fname(splitext(image_files[i]))]
        first  == FirstTestSize(val_ratio, test_ratio)
        second == SecondTestSize(val_ratio, test_ratio)
    IN  IF SplitRaises(first, Len(image_files)) THEN [fs1 EXCEPT !.result = "ValueError"]
        ELSE
        LET train_images == TrainPart(image_files, first)
            temp_images  == TestPart(image_files, first)
            train_labels == TrainPart(label_files, first)
            temp_labels  == TestPart(label_files, first)
        IN  IF SplitRaises(second, Len(temp_images)) THEN [fs1 EXCEPT !.result = "ValueError"]
            ELSE
            LET val_images  == TrainPart(temp_images, second)
                test_images == TestPart(temp_images, second)
                val_labels  == TrainPart(temp_labels, second)
                test_labels == TestPart(temp_labels, second)
                fs2 == [fs1 EXCEPT !.lists =
                           [train_images |-> train_images, val_images |-> val_images,
                            test_images |-> test_images, train_labels |-> train_labels,
                            val_labels |-> val_labels, test_labels |-> test_labels]]
                m1 == move_files(fs2, "images", "train", train_images)
                m2 == move_files(m1, "labels", "train", train_labels)
                m3 == move_files(m2, "images", "valid", val_images)
                m4 == move_files(m3, "labels", "valid", val_labels)
                m5 == move_files(m4, "images", "test", test_images)
            IN  move_files(m5, "labels", "test", test_labels)

(* ------------------------------- actions ------------------------------ *)

Snapshot ==
    [image_dir |-> image_dir, label_dir |-> label_dir, output_dir |-> output_dir, made |-> made]

NoRatio == <<0, 0>>

\* line 87: combine_data(data_dir, image_dir, label_dir)
CombineData ==
    /\ pc = "combine"
    /\ LET pools == combine_data(data_dir, [image_dir |-> image_dir, label_dir |-> label_dir])
       IN  /\ image_dir' = pools.image_dir
           /\ label_dir' = pools.label_dir
    /\ made' = made \cup {"image_dir", "label_dir"}
    /\ pre' = Snapshot
    /\ call' = [name |-> "combine_data", train_ratio |-> NoRatio, val_ratio |-> NoRatio,
                test_ratio |-> NoRatio, result |-> "ok", lists |-> NoLists]
    /\ pc' = "split"
    /\ UNCHANGED <<data_dir, output_dir>>

\* split_data(image_dir, label_dir, output_dir, train_ratio, val_ratio, test_ratio)
SplitData(train_ratio, val_ratio, test_ratio) ==
    /\ pc = "split"
    /\ LET fs == split_data([image_dir |-> image_dir, label_dir |-> label_dir,
                             output_dir |-> output_dir, made |-> made,
                             result |-> "ok", lists |-> NoLists],
                            train_ratio, val_ratio, test_ratio)
       IN  /\ image_dir' = fs.image_dir
           /\ label_dir' = fs.label_dir
           /\ output_dir' = fs.output_dir
           /\ made' = fs.made
           /\ call' = [name |-> "split_data", train_ratio |-> train_ratio,
                       val_ratio |-> val_ratio, test_ratio |-> test_ratio,
                       result |-> fs.result, lists |-> fs.lists]
    /\ pre' = Snapshot
    /\ pc' = "done"
    /\ UNCHANGED data_dir

\* line 152: split_data(image_dir, label_dir, output_dir), the default ratios of line 90
SplitDefault == SplitData(<<3, 5>>, <<1, 5>>, <<1, 5>>)

\* a call of split_data with any ratios of RatioTriples
SplitAny == \E r \in RatioTriples : SplitData(r[1], r[2], r[3])

(* ---------------------------- initial states -------------------------- *)

NoCall ==
    [name |-> "none", train_ratio |-> NoRatio, val_ratio |-> NoRatio,
     test_ratio |-> NoRatio, result |-> "ok", lists |-> NoLists]

EmptyOutput == [s \in SplitNames |-> [images |-> EmptyDir, labels |-> EmptyDir]]

EmptyData == [s \in SplitNames |-> [images |-> EmptyDir, labels |-> EmptyDir]]

Files(names, origin) == {[name |-> n, data |-> origin] : n \in names}

SrcImageNames == {<<b, "jpg">> : b \in 1..SrcBases} \cup {<<1, "png">>}

SrcLabelNames == {<<b, "txt">> : b \in 1..SrcBases}

PoolImageNames == {<<b, "jpg">> : b \in 1..PoolBases} \cup {<<1, "png">>}

PoolLabelNames == {<<b, "txt">> : b \in 1..PoolBases} \cup {<<1, "xml">>}

\* The script as it runs: the three input folders hold any files, the pools and the
\* output do not exist yet.
Init ==
    /\ \E imgs \in [SplitNames -> SUBSET SrcImageNames], lbls \in [SplitNames -> SUBSET SrcLabelNames] :
          data_dir = [s \in SplitNames |->
                         [images |-> Files(imgs[s], s), labels |-> Files(lbls[s], s)]]
    /\ image_dir = EmptyDir
    /\ label_dir = EmptyDir
    /\ output_dir = EmptyOutput
    /\ made = {}
    /\ call = NoCall
    /\ pc = "combine"
    /\ pre = Snapshot

\* split_data called on pre-existing flat pools that hold any files.
InitPools ==
    /\ data_dir = EmptyData
    /\ \E imgs \in SUBSET PoolImageNames, lbls \in SUBSET PoolLabelNames :
          /\ image_dir = Files(imgs, "pool")
          /\ label_dir = Files(lbls, "pool")
    /\ output_dir = EmptyOutput
    /\ made = {"image_dir", "label_dir"}
    /\ call = NoCall
    /\ pc = "split"
    /\ pre = Snapshot

\* split_data called on pools of n matched pairs img0001.jpg/.txt .. img000n.jpg/.txt.
InitPairs ==
    /\ data_dir = EmptyData
    /\ \E n \in 0..MaxPairs :
          /\ image_dir = Files({<<k, "jpg">> : k \in 1..n}, "pool")
          /\ label_dir = Files({<<k, "txt">> : k \in 1..n}, "pool")
    /\ output_dir = EmptyOutput
    /\ made = {"image_dir", "label_dir"}
    /\ call = NoCall
    /\ pc = "split"
    /\ pre = Snapshot

Next == CombineData \/ SplitDefault

Spec == Init /\ [][Next]_vars

SpecPools == InitPools /\ [][SplitAny]_vars

SpecPairs == InitPairs /\ [][SplitAny]_vars

(* ------------------------------ properties ---------------------------- *)

IsSplit == call.name = "split_data"

AfterCombine == call.name = "combine_data"

ExactSum == RAdd(RAdd(call.train_ratio, call.val_ratio), call.test_ratio)

\* the sum of the ratios of the call is not 1, in exact or in binary64 arithmetic
SumIsNotOne ==
    \/ ~REq(ExactSum, ROne)
    \/ <<call.train_ratio, call.val_ratio, call.test_ratio>> \in SumRoundsBelowOne

PoolsUntouched == image_dir = pre.image_dir /\ label_dir = pre.label_dir

Bases(d) == {splitext(fname) : fname \in listdir(d)}

\* the matched-pair set M of the pools the call found
MatchedBases == Bases(pre.image_dir) \cap Bases(pre.label_dir)

\* the images of the pool the call found whose base name is matched
MatchedImages == {f \in pre.image_dir : splitext(f.name) \in MatchedBases}

Range(seq) == {seq[i] : i \in 1..Len(seq)}

\* the splits whose images (labels) folder holds a file of base name b
ImageBuckets(b) == {s \in SplitNames : b \in Bases(output_dir[s].images)}

LabelBuckets(b) == {s \in SplitNames : label_fname(b) \in listdir(output_dir[s].labels)}

Moved == \E s \in SplitNames : output_dir[s].images # {} \/ output_dir[s].labels # {}

\* C1: a call whose ratios do not sum to 1 is rejected with the assertion's error
\* before any directory is created and before any file moves: the created
\* directories, the output folders and both pools are as the call found them.
C1_BadSumRejectedUntouched ==
    (IsSplit /\ SumIsNotOne) =>
        /\ call.result = "AssertionError"
        /\ made = pre.made
        /\ output_dir = pre.output_dir
        /\ PoolsUntouched

\* Scenario B, 0.5/0.3/0.3, rejected on pools of at least three matched pairs
C1_Witness ==
    /\ IsSplit
    /\ <<call.train_ratio, call.val_ratio, call.test_ratio>> = << <<1, 2>>, <<3, 10>>, <<3, 10>> >>
    /\ call.result = "AssertionError"
    /\ Cardinality(MatchedBases) >= 3
    /\ OutputDirs \cap made = {}

\* C2: once both splits are computed, the train, validation and test lists are
\* pairwise disjoint over base names, no base name is listed twice, their union
\* is the matched-pair set M, and after relocation every matched pair's image and
\* label sit in exactly one output bucket, the same one.
C2_ExactPartition ==
    (IsSplit /\ call.result \in {"ok", "FileNotFoundError"}) =>
        LET l == call.lists
            all == l.train_labels \o l.val_labels \o l.test_labels
        IN  /\ \A i, j \in 1..Len(all) : i # j => all[i] # all[j]
            /\ {splitext(n) : n \in Range(all)} = MatchedBases
            /\ \A b \in MatchedBases :
                  /\ Cardinality(ImageBuckets(b)) = 1
                  /\ LabelBuckets(b) = ImageBuckets(b)

\* C3: after split_data, every image in an output bucket has its <base>.txt in the
\* labels folder of the same bucket and in no other bucket's labels folder.
C3_LabelInSameBucket ==
    IsSplit =>
        \A s \in SplitNames : \A f \in output_dir[s].images :
            LabelBuckets(splitext(f.name)) = {s}

\* C4: an image whose base name has no label in the label pool and a label whose
\* base name has no image in the image pool are never moved: each is still in its
\* pool, and in no output folder.
C4_OrphansStay ==
    IsSplit =>
        /\ \A f \in pre.image_dir :
              splitext(f.name) \notin Bases(pre.label_dir) =>
                  /\ f \in image_dir
                  /\ \A s \in SplitNames : ~exists(output_dir[s].images, f.name)
        /\ \A l \in pre.label_dir :
              splitext(l.name) \notin Bases(pre.image_dir) =>
                  /\ l \in label_dir
                  /\ \A s \in SplitNames : ~exists(output_dir[s].labels, l.name)

\* a completed call that moved three or more pairs past an orphan image and an
\* orphan label
C4_Witness ==
    /\ IsSplit
    /\ call.result = "ok"
    /\ Moved
    /\ \E f \in pre.image_dir : splitext(f.name) \notin Bases(pre.label_dir)
    /\ \E l \in pre.label_dir : splitext(l.name) \notin Bases(pre.image_dir)

\* C5: with train_ratio=1, val_ratio=0, test_ratio=0 on a non-empty matched set the
\* call completes, every matched pair is in the train bucket, and the valid and
\* test folders exist and are empty.
C5_AllInTrain ==
    (/\ IsSplit
     /\ <<call.train_ratio, call.val_ratio, call.test_ratio>> = << <<1, 1>>, <<0, 1>>, <<0, 1>> >>
     /\ MatchedBases # {}) =>
        /\ call.result = "ok"
        /\ \A b \in MatchedBases : ImageBuckets(b) = {"train"} /\ LabelBuckets(b) = {"train"}
        /\ OutputDirs \subseteq made
        /\ \A s \in {"valid", "test"} : output_dir[s].images = {} /\ output_dir[s].labels = {}

OutOfRange(q) == RLess(q, RZero) \/ RLess(ROne, q)

\* C6: a call with a ratio that is negative or greater than 1 fails before any
\* I/O: no directory is created and no file moves.
C6_OutOfRangeRejectedUntouched ==
    (IsSplit /\ (OutOfRange(call.train_ratio) \/ OutOfRange(call.val_ratio)
                    \/ OutOfRange(call.test_ratio))) =>
        /\ call.result # "ok"
        /\ made = pre.made
        /\ output_dir = pre.output_dir
        /\ PoolsUntouched

\* C7: a call that ends in an error leaves both flat pools as it found them.
C7_ErrorLeavesPools == (IsSplit /\ call.result # "ok") => PoolsUntouched

NoSharedFilename ==
    \A s, t \in SplitNames : s # t =>
        /\ listdir(data_dir[s].images) \cap listdir(data_dir[t].images) = {}
        /\ listdir(data_dir[s].labels) \cap listdir(data_dir[t].labels) = {}

\* C8: after combine_data, when no file name occurs in more than one split, every
\* image of a split that has its <base>.txt in that split's labels folder is in
\* the image pool, once and with the split's bytes, and its label is in the label
\* pool, once and with the split's bytes.
C8_CombineKeepsPairs ==
    (AfterCombine /\ NoSharedFilename) =>
        \A s \in SplitNames : \A f \in data_dir[s].images :
            exists(data_dir[s].labels, label_fname(splitext(f.name))) =>
                /\ {g \in image_dir : g.name = f.name} = {f}
                /\ {g \in label_dir : g.name = label_fname(splitext(f.name))}
                      = {[name |-> label_fname(splitext(f.name)), data |-> s]}

\* two splits contribute images, one of them a labelled pair, without a shared name
C8_Witness ==
    /\ AfterCombine
    /\ NoSharedFilename
    /\ \E s \in SplitNames : \E f \in data_dir[s].images :
          exists(data_dir[s].labels, label_fname(splitext(f.name)))
    /\ Cardinality({s \in SplitNames : data_dir[s].images # {}}) >= 2
    /\ Cardinality(image_dir) >= 2

InUnit(q) == RLess(RZero, q) /\ RLess(q, ROne)

\* the number of image files in the bucket's images folder
Placed(s) == Cardinality(output_dir[s].images)

\* C9: for N matched pairs and ratios in (0, 1) that sum to 1, the held-out group
\* has ceil(N * (val_ratio + test_ratio)) pairs, test has
\* ceil(held_out * test_ratio / (val_ratio + test_ratio)) of them, validation the
\* rest of the held-out group and train the rest of N: the sizes sum to N.
C9_BucketSizes ==
    (/\ IsSplit
     /\ ~SumIsNotOne
     /\ InUnit(call.train_ratio) /\ InUnit(call.val_ratio) /\ InUnit(call.test_ratio)) =>
        LET N == Cardinality(MatchedImages)
            held_out == NTest(FirstTestSize(call.val_ratio, call.test_ratio), N)
            test == NTest(SecondTestSize(call.val_ratio, call.test_ratio), held_out)
        IN  /\ Placed("test") = test
            /\ Placed("valid") = held_out - test
            /\ Placed("train") = N - held_out
            /\ Placed("train") + Placed("valid") + Placed("test") = N

\* C10: after combine_data, a pooled image and the pooled label of its base name
\* were copied from the same split folder.
C10_PairFromOneSplit ==
    AfterCombine =>
        \A f \in image_dir : \A l \in label_dir :
            l.name = label_fname(splitext(f.name)) => f.data = l.data

====
